---------------------------- MODULE Spec2Model ----------------------------
(***************************************************************************)
(* Inventory ledger core of TurtleEcommerceNew (backend/inventory).         *)
(*                                                                         *)
(* The quantity ledger is perform_inventory_adjustment (services.py): it   *)
(* opens a transaction, locks the Inventory row with select_for_update,    *)
(* validates and mutates the in-memory row by adjustment type, saves it,   *)
(* and creates one InventoryAdjustment row.  Its steps are modelled per    *)
(* calling process so that concurrent calls interleave.                     *)
(***************************************************************************)
EXTENDS Integers, Sequences, FiniteSets, TLC

\* ---------------------------------------------------------------- bounds
\* Largest magnitude of a requested quantity_change.
MaxQty == 2
\* Cap on the number of InventoryAdjustment rows (guards the unbounded journal).
MaxJournal == 3
\* Cap on the number of Lot rows.
MaxLots == 2
\* Cap on a Lot row's quantity.
MaxLotQty == 2
\* Dates are 1..MaxDate; the clock starts at FirstDay.
MaxDate == 2
\* Cap on the units one inventory row holds in the lot-tracked model.
MaxStock == 3
\* Cap on the number of SerializedInventory rows.
MaxUnits == 2
\* Cap on the adjustments and lot creations of the two concurrent clients.
MaxRequests == 2
\* Cap on the units of the record where the REST API and the admin act.
MaxApiStock == 2
FirstDay == 1

\* ------------------------------------------------------- adjustment types
\* The adjustment types a caller passes: the AdjustmentType values
\* (models.py 140-153) the service has a branch for, one enum member no
\* branch handles (RET_STOCK; RECV_PO, SHIP_ORD, RET_NON_SALE, CYCLE and INIT
\* behave like it) and one string that is not an enum member at all (the
\* 'INVALID_TYPE' of test_invalid_adjustment_type).
RequestTypes ==
    {"ADD", "SUB", "RES", "REL_RES", "NON_SALE", "HOLD", "REL_HOLD",
     "RET_STOCK", "INVALID_TYPE"}

Quantities == (0 - MaxQty)..MaxQty

Abs(n) == IF n < 0 THEN 0 - n ELSE n

\* ------------------------------------------------------------ Inventory
\* A freshly created Inventory row: every PositiveIntegerField defaults to 0
\* (models.py 222-253).
NewInventory ==
    [stock_quantity |-> 0, reserved_quantity |-> 0, non_saleable_quantity |-> 0,
     on_order_quantity |-> 0, in_transit_quantity |-> 0, returned_quantity |-> 0,
     hold_quantity |-> 0, backorder_quantity |-> 0]

\* Inventory.available_to_promise (models.py 266-268).
available_to_promise(i) ==
    IF i.stock_quantity - i.reserved_quantity > 0
    THEN i.stock_quantity - i.reserved_quantity ELSE 0

\* The mutant of get_object used by C7: the row is found and returned.
get_object_found(viewset) == ""

\* get_object of a viewset (GenericAPIView.get_object, through
\* TenantViewMixin.get_queryset, tenants/mixins.py 14-18): the exception it
\* raises for a row that exists. InventoryViewSet.get_queryset (views.py
\* 223-238) annotates each row with available_to_promise, which Inventory
\* defines as a property without a setter (models.py 266-268): setting the
\* annotation on the row raises AttributeError. InventoryAdjustmentViewSet,
\* SerializedInventoryViewSet and LotViewSet (views.py 807-823, 850-864,
\* 928-961) have neither a queryset attribute nor a get_queryset of their
\* own: the assertion of GenericAPIView.get_queryset fails.
get_object(viewset) ==
    IF viewset = "InventoryViewSet" THEN "AttributeError" ELSE "AssertionError"

\* ------------------------------------------- perform_inventory_adjustment
\* The mutant of AdjustmentRaises used by C1: SUBTRACTION without the
\* "Insufficient stock" check.
AdjustmentRaisesNoStockCheck(i, t, q) ==
    CASE t = "ADD"      -> q <= 0
      [] t = "SUB"      -> q >= 0
      [] t = "RES"      -> q <= 0 \/ q > i.stock_quantity - i.reserved_quantity
      [] t = "REL_RES"  -> q >= 0 \/ Abs(q) > i.reserved_quantity
      [] t = "NON_SALE" -> q <= 0 \/ q > i.stock_quantity
      [] t = "HOLD"     -> q <= 0 \/ q > i.stock_quantity
      [] t = "REL_HOLD" -> q >= 0 \/ Abs(q) > i.hold_quantity
      [] OTHER          -> FALSE

\* Whether the if/elif chain of services.py 28-76 raises ValidationError for
\* adjustment type t and quantity_change q on the locked row i.  A type that
\* matches no branch falls through the chain and raises nothing.
AdjustmentRaises(i, t, q) ==
    CASE t = "ADD"      -> q <= 0
      [] t = "SUB"      -> q >= 0 \/ Abs(q) > i.stock_quantity
      [] t = "RES"      -> q <= 0 \/ q > i.stock_quantity - i.reserved_quantity
      [] t = "REL_RES"  -> q >= 0 \/ Abs(q) > i.reserved_quantity
      [] t = "NON_SALE" -> q <= 0 \/ q > i.stock_quantity
      [] t = "HOLD"     -> q <= 0 \/ q > i.stock_quantity
      [] t = "REL_HOLD" -> q >= 0 \/ Abs(q) > i.hold_quantity
      [] OTHER          -> FALSE

\* The mutant of AdjustmentMutation used by C15: HOLD fills hold_quantity
\* without taking the units out of stock_quantity.
AdjustmentMutationHoldKeepsStock(i, t, q) ==
    CASE t = "ADD"      -> [i EXCEPT !.stock_quantity = @ + q]
      [] t = "SUB"      -> [i EXCEPT !.stock_quantity = @ + q]
      [] t = "RES"      -> [i EXCEPT !.reserved_quantity = @ + q]
      [] t = "REL_RES"  -> [i EXCEPT !.reserved_quantity = @ + q]
      [] t = "NON_SALE" -> [i EXCEPT !.stock_quantity = @ - q,
                                     !.non_saleable_quantity = @ + q]
      [] t = "HOLD"     -> [i EXCEPT !.hold_quantity = @ + q]
      [] t = "REL_HOLD" -> [i EXCEPT !.hold_quantity = @ + q,
                                     !.stock_quantity = @ - q]
      [] OTHER          -> i

\* The in-memory mutation of the row made by the branch that matches t
\* (services.py 31, 38, 45, 52, 59-60, 67-68, 75-76); no branch, no change.
AdjustmentMutation(i, t, q) ==
    CASE t = "ADD"      -> [i EXCEPT !.stock_quantity = @ + q]
      [] t = "SUB"      -> [i EXCEPT !.stock_quantity = @ + q]
      [] t = "RES"      -> [i EXCEPT !.reserved_quantity = @ + q]
      [] t = "REL_RES"  -> [i EXCEPT !.reserved_quantity = @ + q]
      [] t = "NON_SALE" -> [i EXCEPT !.stock_quantity = @ - q,
                                     !.non_saleable_quantity = @ + q]
      [] t = "HOLD"     -> [i EXCEPT !.stock_quantity = @ - q,
                                     !.hold_quantity = @ + q]
      [] t = "REL_HOLD" -> [i EXCEPT !.hold_quantity = @ + q,
                                     !.stock_quantity = @ - q]
      [] OTHER          -> i

\* InventoryAdjustment.objects.create(...) (services.py 82-90): the journal
\* row, with new_stock_quantity taken from the saved row.
AdjustmentRecord(i, t, q) ==
    [adjustment_type |-> t, quantity_change |-> q,
     new_stock_quantity |-> i.stock_quantity]

\* ------------------------------------------------------------------ Lot
LotNumbers == {"L1", "L2"}

\* expiry_date is nullable (models.py 392-397): NoDate stands for None.
NoDate == 0
Dates == 1..MaxDate

\* Whether the product of the inventory record is lot-tracked
\* (products/models.py 13-16); the lot endpoints answer 400 when it is not.
is_lotted == TRUE

\* A Lot row as the lot services create it: quantity on hand and not
\* reserved, received_date defaulting to today (models.py 376-407), and the
\* reserved counter the lot services keep on the row
\* (test_lot_services.py 333, 351); Lot declares no field of that name.
NewLot(ln, q, e, d) ==
    [lot_number |-> ln, status |-> "AVAILABLE", quantity |-> q,
     reserved_quantity |-> 0, expiry_date |-> e, received_date |-> d]

\* Lot.save (models.py 467-473): a row whose expiry_date has passed is
\* stored as EXPIRED.
LotSave(l, d) ==
    IF l.expiry_date # NoDate /\ l.expiry_date < d
    THEN [l EXCEPT !.status = "EXPIRED"]
    ELSE l

\* Lot.Meta.unique_together (models.py 443), for the one product and
\* location of the inventory record: (lot_number, status) is unique.
UniqueTogether(ls) ==
    \A a, b \in 1..Len(ls) :
        (ls[a].lot_number = ls[b].lot_number /\ ls[a].status = ls[b].status) => a = b

\* The outcome of a lot service call: the exception raised ("" for none)
\* and the rows it leaves. IntegrityError is the database refusing a row:
\* unique_together (models.py 443) or a PositiveIntegerField driven below
\* zero (models.py 222-226).
Outcome(raised, ls, i) == [raised |-> raised, lots |-> ls, inv |-> i]

\* add_quantity_to_lot (inventory.services; its code is not in services.py):
\* qty > 0; the AVAILABLE row of the lot number is incremented, or a row is
\* created; stock_quantity grows by qty.
add_quantity_to_lot(ls, i, ln, q, e, d) ==
    LET existing == {k \in 1..Len(ls) :
                        ls[k].lot_number = ln /\ ls[k].status = "AVAILABLE"}
        newLots ==
            IF existing # {}
            THEN LET k == CHOOSE k \in existing : TRUE
                 IN  [ls EXCEPT ![k] = LotSave([@ EXCEPT !.quantity = @ + q], d)]
            ELSE Append(ls, LotSave(NewLot(ln, q, e, d), d))
    IN  IF q <= 0 THEN Outcome("ValidationError", ls, i)
        ELSE IF ~UniqueTogether(newLots) THEN Outcome("IntegrityError", ls, i)
        ELSE Outcome("", newLots, [i EXCEPT !.stock_quantity = @ + q])

\* The mutant of consume_quantity_from_lot used by C27: an emptied lot
\* keeps its status.
consume_keeps_status(ls, i, k, q) ==
    LET newLots == [ls EXCEPT ![k].quantity = @ - q]
    IN  IF q <= 0 \/ ls[k].status # "AVAILABLE" \/ q > ls[k].quantity
        THEN Outcome("ValidationError", ls, i)
        ELSE IF q > i.stock_quantity THEN Outcome("IntegrityError", ls, i)
        ELSE Outcome("", newLots, [i EXCEPT !.stock_quantity = @ - q])

\* consume_quantity_from_lot (inventory.services; not in services.py):
\* qty > 0, the lot AVAILABLE, qty <= lot.quantity; the lot and
\* stock_quantity shrink by qty and an emptied lot becomes CONSUMED.
consume_quantity_from_lot(ls, i, k, q) ==
    LET after == [ls[k] EXCEPT !.quantity = @ - q,
                               !.status = IF ls[k].quantity = q THEN "CONSUMED" ELSE @]
        newLots == [ls EXCEPT ![k] = after]
    IN  IF q <= 0 \/ ls[k].status # "AVAILABLE" \/ q > ls[k].quantity
        THEN Outcome("ValidationError", ls, i)
        ELSE IF ~UniqueTogether(newLots) \/ q > i.stock_quantity
        THEN Outcome("IntegrityError", ls, i)
        ELSE Outcome("", newLots, [i EXCEPT !.stock_quantity = @ - q])

\* reserve_lot_quantity (inventory.services; not in services.py): qty > 0,
\* qty <= lot.quantity; qty moves from the lot's quantity to its reserved
\* counter and from stock_quantity to reserved_quantity.
reserve_lot_quantity(ls, i, k, q) ==
    LET after == [ls[k] EXCEPT !.quantity = @ - q,
                               !.reserved_quantity = @ + q,
                               !.status = IF ls[k].quantity = q
                                          THEN "RESERVED" ELSE "PARTIALLY_RESERVED"]
        newLots == [ls EXCEPT ![k] = after]
    IN  IF q <= 0 \/ ls[k].status \notin {"AVAILABLE", "PARTIALLY_RESERVED"}
             \/ q > ls[k].quantity
        THEN Outcome("ValidationError", ls, i)
        ELSE IF ~UniqueTogether(newLots) \/ q > i.stock_quantity
        THEN Outcome("IntegrityError", ls, i)
        ELSE Outcome("", newLots, [i EXCEPT !.stock_quantity = @ - q,
                                            !.reserved_quantity = @ + q])

\* The mutant of OrderKey used by C22: a row without expiry_date sorts first.
OrderKeyNullFirst(l, strategy) ==
    IF strategy = "FEFO" THEN l.expiry_date ELSE l.received_date

\* The mutant of OrderKey used by C23: FIFO takes the newest row first.
OrderKeyNewestFirst(l, strategy) ==
    IF strategy = "FEFO"
    THEN IF l.expiry_date = NoDate THEN MaxDate + 1 ELSE l.expiry_date
    ELSE MaxDate + 1 - l.received_date

\* The Allocation Selector's ordering key of a row: FEFO is ascending
\* expiry_date with None last, FIFO ascending received_date.
OrderKey(l, strategy) ==
    IF strategy = "FEFO"
    THEN IF l.expiry_date = NoDate THEN MaxDate + 1 ELSE l.expiry_date
    ELSE l.received_date

\* The eligible rows (AVAILABLE, quantity > 0) that sort before row k; ties
\* are broken by id.
Before(ls, k, strategy) ==
    {m \in 1..Len(ls) :
        /\ ls[m].status = "AVAILABLE" /\ ls[m].quantity > 0
        /\ \/ OrderKey(ls[m], strategy) < OrderKey(ls[k], strategy)
           \/ OrderKey(ls[m], strategy) = OrderKey(ls[k], strategy) /\ m < k}

\* The ids of the eligible rows in allocation order.
SortedEligible(ls, strategy) ==
    LET eligible == {k \in 1..Len(ls) : ls[k].status = "AVAILABLE" /\ ls[k].quantity > 0}
    IN  [n \in 1..Cardinality(eligible) |->
            CHOOSE k \in eligible : Cardinality(Before(ls, k, strategy)) = n - 1]

\* The mutant of Allocate used by C24: every row met is taken whole.
RECURSIVE AllocateWholeLots(_, _, _, _)
AllocateWholeLots(ls, order, n, remaining) ==
    IF n > Len(order) \/ remaining <= 0 THEN << >>
    ELSE LET k == order[n]
         IN  <<[lot |-> k, qty |-> ls[k].quantity]>>
                 \o AllocateWholeLots(ls, order, n + 1, remaining - ls[k].quantity)

\* The walk of the Allocation Selector over the sorted ids from position n
\* with `remaining` still needed: min(quantity, remaining) from each row until
\* nothing remains or the pool is exhausted.
RECURSIVE Allocate(_, _, _, _)
Allocate(ls, order, n, remaining) ==
    IF n > Len(order) \/ remaining <= 0 THEN << >>
    ELSE LET k == order[n]
             take == IF ls[k].quantity < remaining THEN ls[k].quantity ELSE remaining
         IN  <<[lot |-> k, qty |-> take]>> \o Allocate(ls, order, n + 1, remaining - take)

\* find_lots_for_consumption (inventory.services; not in services.py): the
\* ordered (lot, quantity) pairs to take, a partial allocation when the pool
\* is short; nothing is mutated.
find_lots_for_consumption(ls, quantity_needed, strategy) ==
    Allocate(ls, SortedEligible(ls, strategy), 1, quantity_needed)

\* perform_inventory_adjustment as one synchronous call (services.py 5-92).
\* Its signature (line 5) takes user, inventory, adjustment_type,
\* quantity_change, reason and notes: a call that passes any other keyword
\* raises TypeError before the body runs.
PerformInventoryAdjustment(i, j, t, q, extraKeywords) ==
    IF extraKeywords # {}
    THEN [raised |-> "TypeError", inv |-> i, journal |-> j]
    ELSE IF AdjustmentRaises(i, t, q)
    THEN [raised |-> "ValidationError", inv |-> i, journal |-> j]
    ELSE LET m == AdjustmentMutation(i, t, q)
         IN  [raised |-> "", inv |-> m, journal |-> Append(j, AdjustmentRecord(m, t, q))]

\* The calls of the loop of consume_lot / reserve_lot over the allocation,
\* one service call per pair from position n on (views.py 466-472, 603-609);
\* each call persists on its own and the first exception ends the loop.
RECURSIVE ForEachLot(_, _, _, _, _)
ForEachLot(op, ls, i, pairs, n) ==
    IF n > Len(pairs) THEN Outcome("", ls, i)
    ELSE LET out == IF op = "consume"
                    THEN consume_quantity_from_lot(ls, i, pairs[n].lot, pairs[n].qty)
                    ELSE reserve_lot_quantity(ls, i, pairs[n].lot, pairs[n].qty)
         IN  IF out.raised # "" THEN out
             ELSE ForEachLot(op, out.lots, out.inv, pairs, n + 1)

\* release_lot_reservation (inventory.services; not in services.py): the
\* inverse of reserve_lot_quantity on a lot that holds a reservation; qty
\* moves from the lot's reserved counter to its quantity and from
\* reserved_quantity to stock_quantity.
release_lot_reservation(ls, i, k, q) ==
    LET after == [ls[k] EXCEPT !.quantity = @ + q,
                               !.reserved_quantity = @ - q,
                               !.status = IF ls[k].reserved_quantity = q
                                          THEN "AVAILABLE" ELSE "PARTIALLY_RESERVED"]
        newLots == [ls EXCEPT ![k] = after]
    IN  IF q <= 0 \/ ls[k].status \notin {"RESERVED", "PARTIALLY_RESERVED"}
             \/ q > ls[k].reserved_quantity
        THEN Outcome("ValidationError", ls, i)
        ELSE IF ~UniqueTogether(newLots) \/ q > i.reserved_quantity
        THEN Outcome("IntegrityError", ls, i)
        ELSE Outcome("", newLots, [i EXCEPT !.stock_quantity = @ + q,
                                            !.reserved_quantity = @ - q])

\* The mutant of mark_lot_as_expired used by C29: only an AVAILABLE lot is
\* expired.
mark_available_lot_as_expired(ls, i, k) ==
    LET newLots == [ls EXCEPT ![k].status = "EXPIRED"]
    IN  IF ls[k].status # "AVAILABLE" THEN Outcome("", ls, i)
        ELSE IF ~UniqueTogether(newLots) THEN Outcome("IntegrityError", ls, i)
        ELSE Outcome("", newLots, i)

\* mark_lot_as_expired (inventory.services; not in services.py): the status
\* becomes EXPIRED whatever it was; the inventory record is not touched.
mark_lot_as_expired(ls, i, k) ==
    LET newLots == [ls EXCEPT ![k].status = "EXPIRED"]
    IN  IF ~UniqueTogether(newLots) THEN Outcome("IntegrityError", ls, i)
        ELSE Outcome("", newLots, i)

\* No lot service has been called yet.
NoLotResponse ==
    [op |-> "-", lot |-> 0, qty |-> 0, arg |-> "-", raised |-> "", pairs |-> << >>]

\* The except clauses of the lot endpoints (views.py 375-384, 512-521):
\* DjangoValidationError answers 400, any other exception 500.
StatusOf(raised) ==
    IF raised = "" THEN 200 ELSE IF raised = "ValidationError" THEN 400 ELSE 500


\* --------------------------------------------------- SerializedInventory
SerialNumbers == {"S1", "S2"}

\* SerialNumberStatus (models.py 155-161).
SerialStatuses == {"AVAILABLE", "RESERVED", "SOLD", "IN_TRANSIT", "RETURNED", "DAMAGED"}

\* A request that does not send the status field.
NoStatus == "-"

\* A SerializedInventory row as it is created: status defaults to AVAILABLE
\* (models.py 293-303).
NewUnit(sn) == [serial_number |-> sn, status |-> "AVAILABLE"]

\* The mutant of SerialUniqueTogether used by C19: uniqueness over
\* (serial_number, status), as Lot has it.
SerialUniqueTogetherWithStatus(us) ==
    \A a, b \in 1..Len(us) :
        (us[a].serial_number = us[b].serial_number /\ us[a].status = us[b].status)
            => a = b

\* SerializedInventory.Meta.unique_together (models.py 323), for the one
\* product and tenant of the inventory record: serial_number is unique.
SerialUniqueTogether(us) ==
    \A a, b \in 1..Len(us) : us[a].serial_number = us[b].serial_number => a = b

\* The outcome of a serial service call: the exception raised ("" for none)
\* and the rows it leaves.
SerialOutcome(raised, us, i) == [raised |-> raised, units |-> us, inv |-> i]

\* The bucket of the inventory record a unit of this status is counted in:
\* AVAILABLE units are stock, RESERVED units are reserved, the others are in
\* neither.
UnitBucket(st) ==
    IF st = "AVAILABLE" THEN "stock_quantity"
    ELSE IF st = "RESERVED" THEN "reserved_quantity" ELSE "-"

\* The inventory row after one unit went from status `from` to status `to`.
MoveUnit(i, from, to) ==
    LET left == IF UnitBucket(from) = "-" THEN i
                ELSE [i EXCEPT ![UnitBucket(from)] = @ - 1]
    IN  IF UnitBucket(to) = "-" THEN left
        ELSE [left EXCEPT ![UnitBucket(to)] = @ + 1]

\* receive_serialized_item (inventory.services; not in services.py): a
\* serial number the product already has is refused with ValidationError;
\* otherwise an AVAILABLE row is created and stock_quantity grows by 1.
receive_serialized_item(us, i, sn) ==
    LET newUnits == Append(us, NewUnit(sn))
    IN  IF ~SerialUniqueTogether(newUnits)
        THEN SerialOutcome("ValidationError", us, i)
        ELSE SerialOutcome("", newUnits, [i EXCEPT !.stock_quantity = @ + 1])

\* The transitions update_serialized_status refuses: SOLD and DAMAGED units
\* do not go back to AVAILABLE, and RESERVED units become SOLD by shipping
\* only (test_serialized_services.py 134-149).
RefusedTransitions ==
    {<<"SOLD", "AVAILABLE">>, <<"DAMAGED", "AVAILABLE">>, <<"RESERVED", "SOLD">>}

\* update_serialized_status (inventory.services; not in services.py): the
\* general transition, with its side effects on the inventory record.
update_serialized_status(us, i, k, new_status) ==
    IF <<us[k].status, new_status>> \in RefusedTransitions
    THEN SerialOutcome("ValidationError", us, i)
    ELSE SerialOutcome("", [us EXCEPT ![k].status = new_status],
                       MoveUnit(i, us[k].status, new_status))

\* The mutant of reserve_serialized_item used by C20: the status is set and the inventory
\* record is left alone.
reserve_status_only(us, i, k) ==
    IF us[k].status # "AVAILABLE" THEN SerialOutcome("ValidationError", us, i)
    ELSE SerialOutcome("", [us EXCEPT ![k].status = "RESERVED"], i)

\* The mutant of ship_serialized_item used by C21: the unit becomes SOLD and the inventory
\* record is left alone.
ship_status_only(us, i, k) ==
    IF us[k].status # "RESERVED" THEN SerialOutcome("ValidationError", us, i)
    ELSE SerialOutcome("", [us EXCEPT ![k].status = "SOLD"], i)

\* reserve_serialized_item (inventory.services; not in services.py): the
\* unit must be AVAILABLE; it becomes RESERVED and one unit moves from
\* stock_quantity to reserved_quantity.
reserve_serialized_item(us, i, k) ==
    IF us[k].status # "AVAILABLE" THEN SerialOutcome("ValidationError", us, i)
    ELSE SerialOutcome("", [us EXCEPT ![k].status = "RESERVED"],
                       MoveUnit(i, "AVAILABLE", "RESERVED"))

\* ship_serialized_item (inventory.services; not in services.py): the unit
\* must be RESERVED; it becomes SOLD and reserved_quantity shrinks by 1.
ship_serialized_item(us, i, k) ==
    IF us[k].status # "RESERVED" THEN SerialOutcome("ValidationError", us, i)
    ELSE SerialOutcome("", [us EXCEPT ![k].status = "SOLD"],
                       MoveUnit(i, "RESERVED", "SOLD"))

\* SerializedInventorySerializer.validate_status (serializers.py 216-228):
\* the exception it raises for the instance's status and the value sent.
\* Its first statement names SerialNumberStatus, which serializers.py does
\* not import (lines 3-12): every call raises NameError, whatever the
\* transition.
validate_status(current_status, value) == "NameError"

\* SerializedInventoryViewSet.perform_update (views.py 866-886), reached
\* with validated data: a status that differs goes through
\* update_serialized_status, anything else is saved as it is.
perform_update(us, i, k, value) ==
    IF value # NoStatus /\ value # us[k].status
    THEN update_serialized_status(us, i, k, value)
    ELSE SerialOutcome("", us, i)

\* PUT/PATCH /serialized-inventory/{id}/ (UpdateModelMixin.update): the
\* row is looked up with get_object, the serializer validates the fields
\* sent (validate_status when status is among them), then perform_update
\* runs.
serialized_update(us, i, k, value) ==
    IF get_object("SerializedInventoryViewSet") # ""
    THEN SerialOutcome(get_object("SerializedInventoryViewSet"), us, i)
    ELSE IF value # NoStatus /\ validate_status(us[k].status, value) # ""
    THEN SerialOutcome(validate_status(us[k].status, value), us, i)
    ELSE perform_update(us, i, k, value)

\* SerializedInventoryViewSet.reserve (views.py 888-906): get_object, then
\* the service call, whose ValidationError is answered 400.
reserve(us, i, k) ==
    IF get_object("SerializedInventoryViewSet") # ""
    THEN SerialOutcome(get_object("SerializedInventoryViewSet"), us, i)
    ELSE reserve_serialized_item(us, i, k)

\* SerializedInventoryViewSet.ship (views.py 908-926), of the same shape.
ship(us, i, k) ==
    IF get_object("SerializedInventoryViewSet") # ""
    THEN SerialOutcome(get_object("SerializedInventoryViewSet"), us, i)
    ELSE ship_serialized_item(us, i, k)

\* SerializedInventoryAdmin (admin.py 52-100): the change form of the admin
\* site. status is among its fields and is not read-only; the form checks the
\* value against the choices of the field, and SerializedInventory.save
\* (models.py 342-344) runs clean, which looks at the product and the
\* inventory record only. The inventory record is not touched.
SerializedInventoryAdmin(us, i, k, value) ==
    IF value \notin SerialStatuses THEN SerialOutcome("ValidationError", us, i)
    ELSE SerialOutcome("", [us EXCEPT ![k].status = value], i)

NoSerialResponse == [op |-> "-", unit |-> 0, value |-> NoStatus, raised |-> ""]

\* No request has been answered yet. A response is the route asked, the
\* HTTP status and, for a read, the values reported.
NoHttpResponse == [op |-> "-", status |-> 0, body |-> << >>]

\* The products of the catalogue, by sku (products/models.py 5).
Skus == {"SKU-1", "SKU-2"}

\* The tracking flags of a Product row (products/models.py 9-16).
Flags(lotted, serialized) == [is_lotted |-> lotted, is_serialized |-> serialized]

\* ----------------------------------------------------------------- state
Procs == {1, 2}

NoRequest == [adjustment_type |-> "-", quantity_change |-> 0]

VARIABLES
    inv,        \* the committed Inventory row
    journal,    \* the committed InventoryAdjustment rows, oldest first
    pc,         \* per process: where it is in perform_inventory_adjustment
    req,        \* per process: the (adjustment_type, quantity_change) passed
    loc,        \* per process: the local `inventory` object read under lock
    lockHolder, \* the process holding the row lock, 0 when free
    result,     \* per process: outcome of its last call
    lots,       \* the Lot rows of the inventory record, in id order
    today,      \* timezone.now().date()
    lotResp,    \* the last lot service call: what was asked and what came back
    units,      \* the SerializedInventory rows of the inventory record, in id order
    serialResp, \* the last serial operation: what was asked and what it raised
    httpResp,   \* the last response of the REST API or the admin site
    products,   \* the Product rows: sku -> its tracking flags
    lotRows,    \* the Lot rows of all products: (product, lot_number)
    unitRows    \* the SerializedInventory rows of all products: (product, serial_number)

ledgerVars == <<inv, journal, pc, req, loc, lockHolder, result>>
lotVars == <<lots, today, lotResp>>
serialVars == <<units, serialResp>>
httpVars == <<httpResp>>
catalogVars == <<products, lotRows, unitRows>>
vars == <<ledgerVars, lotVars, serialVars, httpVars, catalogVars>>

Init ==
    /\ inv = NewInventory
    /\ journal = << >>
    /\ pc = [p \in Procs |-> "idle"]
    /\ req = [p \in Procs |-> NoRequest]
    /\ loc = [p \in Procs |-> NewInventory]
    /\ lockHolder = 0
    /\ result = [p \in Procs |-> "none"]
    /\ lots = << >>
    /\ today = FirstDay
    /\ lotResp = NoLotResponse
    /\ units = << >>
    /\ serialResp = NoSerialResponse
    /\ httpResp = NoHttpResponse
    /\ products = [sku \in Skus |-> IF sku = "SKU-1" THEN Flags(TRUE, FALSE)
                                                     ELSE Flags(FALSE, TRUE)]
    /\ lotRows = {}
    /\ unitRows = {}

InFlight == {p \in Procs : pc[p] # "idle"}

\* A caller enters perform_inventory_adjustment and its transaction.atomic()
\* block (services.py 5, 23).  Its arguments are drawn where they are first
\* read, after the locked read of the row.
Call(p) ==
    /\ pc[p] = "idle"
    /\ Len(journal) + Cardinality(InFlight) < MaxJournal
    /\ pc' = [pc EXCEPT ![p] = "begin"]
    /\ result' = [result EXCEPT ![p] = "none"]
    /\ UNCHANGED <<inv, journal, req, loc, lockHolder>>
    /\ UNCHANGED <<lotVars, serialVars, httpVars, catalogVars>>

\* The mutant of SelectForUpdate used by C3: a plain .get() that takes no
\* row lock.
SelectWithoutLock(p) ==
    /\ pc[p] = "begin"
    /\ lockHolder' = p
    /\ loc' = [loc EXCEPT ![p] = inv]
    /\ \E t \in RequestTypes, q \in Quantities :
          req' = [req EXCEPT ![p] = [adjustment_type |-> t, quantity_change |-> q]]
    /\ pc' = [pc EXCEPT ![p] = "locked"]
    /\ UNCHANGED <<inv, journal, result>>
    /\ UNCHANGED <<lotVars, serialVars, httpVars, catalogVars>>

\* Inventory.objects.select_for_update().get(pk=...) (services.py 25): blocks
\* while another transaction holds the row lock, then reads the row.  The
\* call's adjustment_type and quantity_change are any of the request values.
SelectForUpdate(p) ==
    /\ pc[p] = "begin"
    /\ lockHolder = 0
    /\ lockHolder' = p
    /\ loc' = [loc EXCEPT ![p] = inv]
    /\ \E t \in RequestTypes, q \in Quantities :
          req' = [req EXCEPT ![p] = [adjustment_type |-> t, quantity_change |-> q]]
    /\ pc' = [pc EXCEPT ![p] = "locked"]
    /\ UNCHANGED <<inv, journal, result>>
    /\ UNCHANGED <<lotVars, serialVars, httpVars, catalogVars>>

\* The mutant of Raise used by C2: the mutated row is written and kept
\* although the call raises.
RaiseAfterWrite(p) ==
    /\ pc[p] = "locked"
    /\ AdjustmentRaises(loc[p], req[p].adjustment_type, req[p].quantity_change)
    /\ inv' = AdjustmentMutation(loc[p], req[p].adjustment_type, req[p].quantity_change)
    /\ pc' = [pc EXCEPT ![p] = "idle"]
    /\ result' = [result EXCEPT ![p] = "error"]
    /\ req' = [req EXCEPT ![p] = NoRequest]
    /\ loc' = [loc EXCEPT ![p] = NewInventory]
    /\ lockHolder' = IF lockHolder = p THEN 0 ELSE lockHolder
    /\ UNCHANGED <<journal>>
    /\ UNCHANGED <<lotVars, serialVars, httpVars, catalogVars>>

\* A branch raises ValidationError (services.py 30, 35, 37, 42, 44, 49, 51,
\* 56, 58, 64, 66, 72, 74): the atomic block rolls back, nothing was written,
\* and the row lock is released.
Raise(p) ==
    /\ pc[p] = "locked"
    /\ AdjustmentRaises(loc[p], req[p].adjustment_type, req[p].quantity_change)
    /\ pc' = [pc EXCEPT ![p] = "idle"]
    /\ result' = [result EXCEPT ![p] = "error"]
    /\ req' = [req EXCEPT ![p] = NoRequest]
    /\ loc' = [loc EXCEPT ![p] = NewInventory]
    /\ lockHolder' = IF lockHolder = p THEN 0 ELSE lockHolder
    /\ UNCHANGED <<inv, journal>>
    /\ UNCHANGED <<lotVars, serialVars, httpVars, catalogVars>>

\* The matching branch passes its checks and mutates the local row
\* (services.py 28-76).
Mutate(p) ==
    /\ pc[p] = "locked"
    /\ ~AdjustmentRaises(loc[p], req[p].adjustment_type, req[p].quantity_change)
    /\ loc' = [loc EXCEPT ![p] =
                 AdjustmentMutation(loc[p], req[p].adjustment_type, req[p].quantity_change)]
    /\ pc' = [pc EXCEPT ![p] = "mutated"]
    /\ UNCHANGED <<inv, journal, req, lockHolder, result>>
    /\ UNCHANGED <<lotVars, serialVars, httpVars, catalogVars>>

\* The mutant of Commit used by C35: the row and the journal entry are
\* written but the row lock is kept.
CommitKeepsLock(p) ==
    /\ pc[p] = "mutated"
    /\ inv' = loc[p]
    /\ journal' = Append(journal,
                     AdjustmentRecord(loc[p], req[p].adjustment_type, req[p].quantity_change))
    /\ pc' = [pc EXCEPT ![p] = "idle"]
    /\ result' = [result EXCEPT ![p] = "ok"]
    /\ req' = [req EXCEPT ![p] = NoRequest]
    /\ loc' = [loc EXCEPT ![p] = NewInventory]
    /\ UNCHANGED <<lockHolder>>
    /\ UNCHANGED <<lotVars, serialVars, httpVars, catalogVars>>

\* inventory.save(), InventoryAdjustment.objects.create(...) and the commit
\* of the atomic block (services.py 78-92): the row and the journal entry
\* become visible together and the row lock is released.
Commit(p) ==
    /\ pc[p] = "mutated"
    /\ inv' = loc[p]
    /\ journal' = Append(journal,
                     AdjustmentRecord(loc[p], req[p].adjustment_type, req[p].quantity_change))
    /\ pc' = [pc EXCEPT ![p] = "idle"]
    /\ result' = [result EXCEPT ![p] = "ok"]
    /\ req' = [req EXCEPT ![p] = NoRequest]
    /\ loc' = [loc EXCEPT ![p] = NewInventory]
    /\ lockHolder' = IF lockHolder = p THEN 0 ELSE lockHolder
    /\ UNCHANGED <<lotVars, serialVars, httpVars, catalogVars>>

Next ==
    \E p \in Procs :
        \/ Call(p)
        \/ SelectForUpdate(p)
        \/ Raise(p)
        \/ Mutate(p)
        \/ Commit(p)

Spec == Init /\ [][Next]_vars

\* The calls as they are scheduled: a call that holds the lock runs on to
\* its commit or its ValidationError (services.py 23-92 blocks nowhere
\* after the locked read), and the database grants the row lock to a call
\* that waits for it: the waiters of a row lock are queued, so a call that
\* finds the lock free again and again is not passed over for ever.
FairSpec ==
    /\ Spec
    /\ \A p \in Procs :
          /\ WF_vars(Raise(p))
          /\ WF_vars(Mutate(p))
          /\ WF_vars(Commit(p))
          /\ SF_vars(SelectForUpdate(p))

\* ------------------------------------------------------- lot endpoints
\* What a request leaves behind: the HTTP status of its response and the
\* rows in the database when it has returned.
Response(status, ls, i, j) == [status |-> status, lots |-> ls, inv |-> i, journal |-> j]

\* What a lot endpoint does once its service calls returned `out`, which
\* have persisted: perform_inventory_adjustment is called with the
\* endpoint's adjustment_type and keywords, in its own transaction; the
\* response is 200, or 400/500 by the except clauses.
RecordAdjustment(out, j, t, q, extraKeywords) ==
    IF out.raised # ""
    THEN Response(StatusOf(out.raised), out.lots, out.inv, j)
    ELSE LET adj == PerformInventoryAdjustment(out.inv, j, t, q, extraKeywords)
         IN  Response(StatusOf(adj.raised), out.lots, adj.inv, adj.journal)

\* InventoryViewSet.add_lot (views.py 266-384). Its first statement is
\* get_object (line 277), outside every try block.
add_lot(ls, i, j, ln, q, e, d) ==
    IF get_object("InventoryViewSet") # "" THEN Response(500, ls, i, j)
    ELSE IF ~is_lotted \/ q <= 0 THEN Response(400, ls, i, j)
    ELSE RecordAdjustment(add_quantity_to_lot(ls, i, ln, q, e, d), j, "ADD", q,
                          {"lot_number", "expiry_date", "cost_price_per_unit"})

\* InventoryViewSet.consume_lot (views.py 386-521). With a lot_number the
\* lookup names LotStatus, which views.py does not import (line 436): the
\* NameError is answered 500 before any service call.
consume_lot(ls, i, j, q, strategy, specific_lot) ==
    IF get_object("InventoryViewSet") # "" THEN Response(500, ls, i, j)
    ELSE IF ~is_lotted \/ q <= 0 THEN Response(400, ls, i, j)
    ELSE IF specific_lot THEN Response(500, ls, i, j)
    ELSE RecordAdjustment(
             ForEachLot("consume", ls, i, find_lots_for_consumption(ls, q, strategy), 1),
             j, "REMOVE", q, {"lot_strategy"})

\* InventoryViewSet.reserve_lot (views.py 523-658), of the same shape
\* (LotStatus at line 573).
reserve_lot(ls, i, j, q, strategy, specific_lot) ==
    IF get_object("InventoryViewSet") # "" THEN Response(500, ls, i, j)
    ELSE IF ~is_lotted \/ q <= 0 THEN Response(400, ls, i, j)
    ELSE IF specific_lot THEN Response(500, ls, i, j)
    ELSE RecordAdjustment(
             ForEachLot("reserve", ls, i, find_lots_for_consumption(ls, q, strategy), 1),
             j, "RESERVE", q, {"lot_strategy"})

\* InventoryViewSet.release_lot_reservation (views.py 660-805). Both the
\* lookup by lot_number (line 702) and the query of the reserved lots
\* (line 724) name LotStatus: every validated request is answered 500
\* before a lot is released.
release_lot_reservation_endpoint(ls, i, j, q, specific_lot) ==
    IF get_object("InventoryViewSet") # "" THEN Response(500, ls, i, j)
    ELSE IF ~is_lotted \/ q <= 0 THEN Response(400, ls, i, j)
    ELSE Response(500, ls, i, j)

\* POST /lots/ (serializers.py 266-366): the serializer rejects a negative
\* quantity and a lot number the product already has; create() saves the
\* lot, reads the inventory row and writes stock_quantity plus the lot's
\* quantity back.
lot_create(ls, i, j, ln, q, e, d) ==
    IF q < 0 \/ \E k \in 1..Len(ls) : ls[k].lot_number = ln
    THEN Response(400, ls, i, j)
    ELSE Response(201, Append(ls, LotSave(NewLot(ln, q, e, d), d)),
                  [i EXCEPT !.stock_quantity = @ + q], j)

\* PUT/PATCH /lots/{id}/ (views.py 928-974, serializers.py 230-257): the
\* row is looked up with get_object; quantity and expiry_date are writable,
\* a negative quantity is rejected; the row is saved and nothing else is
\* touched.
lot_update(ls, i, j, k, q, e, d) ==
    LET newLots == [ls EXCEPT ![k] = LotSave([@ EXCEPT !.quantity = q,
                                                      !.expiry_date = e], d)]
    IN  IF get_object("LotViewSet") # "" THEN Response(500, ls, i, j)
        ELSE IF q < 0 THEN Response(400, ls, i, j)
        ELSE IF ~UniqueTogether(newLots) THEN Response(500, ls, i, j)
        ELSE Response(200, newLots, i, j)

\* The rows stay within the bounds of the model.
WithinBounds(ls, i, j) ==
    /\ Len(ls) <= MaxLots
    /\ \A k \in 1..Len(ls) : ls[k].quantity + ls[k].reserved_quantity <= MaxLotQty
    /\ i.stock_quantity + i.reserved_quantity <= MaxStock
    /\ Len(j) <= MaxJournal

\* What a request leaves behind is in the database when it returns, and
\* the client has its status.
Serve(r, op) ==
    /\ WithinBounds(r.lots, r.inv, r.journal)
    /\ lots' = r.lots
    /\ inv' = r.inv
    /\ journal' = r.journal
    /\ httpResp' = [op |-> op, status |-> r.status, body |-> << >>]
    /\ UNCHANGED catalogVars

\* A request to a lot endpoint is served while no adjustment holds the row
\* lock of the inventory record.
AddLot(ln, q, e) ==
    /\ lockHolder = 0
    /\ Serve(add_lot(lots, inv, journal, ln, q, e, today), "add_lot")
    /\ UNCHANGED <<pc, req, loc, lockHolder, result, today, lotResp, serialVars>>

ConsumeLot(q, strategy, specific_lot) ==
    /\ lockHolder = 0
    /\ Serve(consume_lot(lots, inv, journal, q, strategy, specific_lot), "consume_lot")
    /\ UNCHANGED <<pc, req, loc, lockHolder, result, today, lotResp, serialVars>>

ReserveLot(q, strategy, specific_lot) ==
    /\ lockHolder = 0
    /\ Serve(reserve_lot(lots, inv, journal, q, strategy, specific_lot), "reserve_lot")
    /\ UNCHANGED <<pc, req, loc, lockHolder, result, today, lotResp, serialVars>>

ReleaseLotReservation(q, specific_lot) ==
    /\ lockHolder = 0
    /\ Serve(release_lot_reservation_endpoint(lots, inv, journal, q, specific_lot), "release_lot_reservation")
    /\ UNCHANGED <<pc, req, loc, lockHolder, result, today, lotResp, serialVars>>

LotCreate(ln, q, e) ==
    /\ lockHolder = 0
    /\ Serve(lot_create(lots, inv, journal, ln, q, e, today), "lot_create")
    /\ UNCHANGED <<pc, req, loc, lockHolder, result, today, lotResp, serialVars>>

LotUpdate(k, q, e) ==
    /\ lockHolder = 0
    /\ k \in 1..Len(lots)
    /\ Serve(lot_update(lots, inv, journal, k, q, e, today), "lot_update")
    /\ UNCHANGED <<pc, req, loc, lockHolder, result, today, lotResp, serialVars>>

\* The calendar moves on: timezone.now().date() (models.py 470).
NextDay ==
    /\ today < MaxDate
    /\ today' = today + 1
    /\ UNCHANGED <<ledgerVars, lots, lotResp, serialVars, httpVars, catalogVars>>

\* Quantities a client sends: to the lot endpoints, where zero stands for
\* every rejected value, and to the lot resource, where zero is accepted.
RequestQuantities == 0..MaxLotQty
LotQuantities == (0 - 1)..MaxLotQty
ExpiryDates == {NoDate} \cup Dates
Strategies == {"FEFO", "FIFO"}

\* The HTTP surface of a lot-tracked product: the lot endpoints of the
\* inventory record and the lot resource. The Quantity Ledger is entered
\* through the endpoints, synchronously.
NextLot ==
    \/ \E ln \in LotNumbers, q \in RequestQuantities, e \in ExpiryDates : AddLot(ln, q, e)
    \/ \E q \in RequestQuantities, s \in Strategies, sl \in BOOLEAN : ConsumeLot(q, s, sl)
    \/ \E q \in RequestQuantities, s \in Strategies, sl \in BOOLEAN : ReserveLot(q, s, sl)
    \/ \E q \in RequestQuantities, sl \in BOOLEAN : ReleaseLotReservation(q, sl)
    \/ \E ln \in LotNumbers, q \in LotQuantities, e \in ExpiryDates : LotCreate(ln, q, e)
    \/ \E k \in 1..MaxLots, q \in LotQuantities, e \in ExpiryDates : LotUpdate(k, q, e)
    \/ NextDay

SpecLot == Init /\ [][NextLot]_vars

\* ------------------------------------------ lot creation by the steps
\* POST /lots/ as process p runs it (LotViewSet create, CreateModelMixin):
\* no transaction encloses the request, so every save is committed on its
\* own and adjustments of other processes interleave.

\* The serializer has accepted the request (serializers.py 278-301: quantity
\* >= 0, lot number new to the product) and create() has saved the lot
\* (lines 328-329).
CreateLotSave(p, ln, q, e) ==
    /\ pc[p] = "idle"
    /\ q >= 0
    /\ \A k \in 1..Len(lots) : lots[k].lot_number # ln
    /\ Len(lots) < MaxLots
    /\ lots' = Append(lots, LotSave(NewLot(ln, q, e, today), today))
    /\ req' = [req EXCEPT ![p] = [adjustment_type |-> "-", quantity_change |-> q,
                                  lot_number |-> ln]]
    /\ pc' = [pc EXCEPT ![p] = "lot_saved"]
    /\ result' = [result EXCEPT ![p] = "none"]
    /\ UNCHANGED <<inv, journal, loc, lockHolder, today, lotResp, serialVars, httpVars, catalogVars>>

\* Inventory.objects.get_or_create(...) (serializers.py 346-354): a plain
\* read of the inventory row; it takes no lock and waits for none.
CreateLotGetInventory(p) ==
    /\ pc[p] = "lot_saved"
    /\ loc' = [loc EXCEPT ![p] = inv]
    /\ pc' = [pc EXCEPT ![p] = "lot_linked"]
    /\ UNCHANGED <<inv, journal, req, lockHolder, result>>
    /\ UNCHANGED <<lotVars, serialVars, httpVars, catalogVars>>

\* lot.save() with the link to the inventory row, then
\* inventory.stock_quantity = inventory.stock_quantity + lot.quantity and
\* inventory.save() (serializers.py 357-364). The UPDATE waits while an
\* adjustment holds the row lock, then writes every column of the row as
\* this process read it.
CreateLotSaveInventory(p) ==
    /\ pc[p] = "lot_linked"
    /\ lockHolder = 0
    /\ LET k == CHOOSE k \in 1..Len(lots) : lots[k].lot_number = req[p].lot_number
       IN  lots' = [lots EXCEPT ![k] = LotSave(@, today)]
    /\ inv' = [loc[p] EXCEPT !.stock_quantity = @ + req[p].quantity_change]
    /\ pc' = [pc EXCEPT ![p] = "idle"]
    /\ result' = [result EXCEPT ![p] = "created"]
    /\ req' = [req EXCEPT ![p] = NoRequest]
    /\ loc' = [loc EXCEPT ![p] = NewInventory]
    /\ UNCHANGED <<journal, lockHolder, today, lotResp, serialVars, httpVars, catalogVars>>

\* The two clients of the inventory record of a lot-tracked product: one
\* calls perform_inventory_adjustment, the other posts lots.
Adjuster == 1
LotClient == 2

\* The adjustments journalled or under way and the lots posted.
RequestsSoFar ==
    Len(journal) + Len(lots) + (IF pc[Adjuster] # "idle" THEN 1 ELSE 0)

\* A lot-tracked product whose inventory record is adjusted through
\* perform_inventory_adjustment while lots are created through POST /lots/.
NextLotCreate ==
    \/ RequestsSoFar < MaxRequests /\ Call(Adjuster)
    \/ SelectForUpdate(Adjuster)
    \/ Raise(Adjuster)
    \/ Mutate(Adjuster)
    \/ Commit(Adjuster)
    \/ \E ln \in LotNumbers, q \in LotQuantities, e \in ExpiryDates :
          RequestsSoFar < MaxRequests /\ CreateLotSave(LotClient, ln, q, e)
    \/ CreateLotGetInventory(LotClient)
    \/ CreateLotSaveInventory(LotClient)

SpecLotCreate == Init /\ [][NextLotCreate]_vars

\* ------------------------------------------- the REST API and the admin
\* InventoryAdjustmentCreateSerializer.validate (serializers.py 387-419) and
\* the choices of adjustment_type: whether the request is refused with 400.
adjustment_create_invalid(i, t, q) ==
    CASE t = "INVALID_TYPE"          -> TRUE
      [] t \in {"ADD", "RET_STOCK"}  -> q <= 0
      [] t = "SUB"                   -> q >= 0 \/ Abs(q) > i.stock_quantity
      [] t = "RES"                   -> q <= 0 \/ q > i.stock_quantity - i.reserved_quantity
      [] t = "REL_RES"               -> q >= 0 \/ Abs(q) > i.reserved_quantity
      [] OTHER                       -> FALSE

\* POST /inventory-adjustments/ (views.py 825-848): perform_create reads
\* validated_data['quantity'], a key the serializer does not have (its field
\* is quantity_change, serializers.py 380): KeyError, answered 500 before
\* perform_inventory_adjustment is called. Nothing is written.
adjustment_create(i, j, t, q) ==
    IF adjustment_create_invalid(i, t, q) THEN [status |-> 400, inv |-> i, journal |-> j]
    ELSE [status |-> 500, inv |-> i, journal |-> j]

\* PUT, PATCH and DELETE /inventory-adjustments/{k}/ and the listing of the
\* adjustments (ModelViewSet, views.py 807-823): each starts with
\* get_queryset.
adjustment_detail(j, k) ==
    IF get_object("InventoryAdjustmentViewSet") # "" THEN [status |-> 500, journal |-> j]
    ELSE [status |-> 200, journal |-> j]

\* The available_to_promise the queryset of InventoryViewSet computes
\* (views.py 231-236): F('stock_quantity') - F('reserved_quantity').
annotated_available_to_promise(i) == i.stock_quantity - i.reserved_quantity

\* GET /inventory/{id}/ and GET /inventory/ (views.py 158-238,
\* serializers.py 145): the rows are built from get_queryset and the
\* serializer reports their available_to_promise.
inventory_retrieve(i) ==
    IF get_object("InventoryViewSet") # "" THEN [status |-> 500, body |-> << >>]
    ELSE [status |-> 200, body |-> <<annotated_available_to_promise(i)>>]

\* PUT, PATCH and DELETE /inventory/{id}/: get_object comes first.
inventory_detail(i) ==
    IF get_object("InventoryViewSet") # "" THEN [status |-> 500, inv |-> i]
    ELSE [status |-> 200, inv |-> i]

\* InventoryAdjustmentAdmin (admin.py 102-121): the change form of the
\* admin site. Only timestamp and new_stock_quantity are read-only; the form
\* is saved with another quantity_change.
InventoryAdjustmentAdminChange(j, k, q) == [j EXCEPT ![k].quantity_change = q]

\* InventoryAdjustmentAdmin: the delete view, which ModelAdmin offers unless
\* has_delete_permission is overridden; the row is removed.
InventoryAdjustmentAdminDelete(j, k) ==
    [n \in 1..(Len(j) - 1) |-> IF n < k THEN j[n] ELSE j[n + 1]]

\* A call of perform_inventory_adjustment that runs alone.
PerformAdjustment(t, q) ==
    /\ lockHolder = 0
    /\ Len(journal) < MaxRequests
    /\ LET out == PerformInventoryAdjustment(inv, journal, t, q, {})
       IN  /\ out.inv.stock_quantity + out.inv.reserved_quantity
                + out.inv.non_saleable_quantity + out.inv.hold_quantity <= MaxApiStock
           /\ inv' = out.inv /\ journal' = out.journal
    /\ UNCHANGED <<pc, req, loc, lockHolder, result, lotVars, serialVars, httpVars, catalogVars>>

CreateAdjustment(t, q) ==
    /\ lockHolder = 0
    /\ LET r == adjustment_create(inv, journal, t, q)
       IN  /\ inv' = r.inv /\ journal' = r.journal
           /\ httpResp' = [op |-> "adjustment_create", status |-> r.status, body |-> << >>]
    /\ UNCHANGED <<pc, req, loc, lockHolder, result, lotVars, serialVars, catalogVars>>

\* PUT, PATCH or DELETE /inventory-adjustments/{k}/.
ChangeAdjustment(k) ==
    /\ k \in 1..Len(journal)
    /\ LET r == adjustment_detail(journal, k)
       IN  /\ journal' = r.journal
           /\ httpResp' = [op |-> "adjustment_detail", status |-> r.status, body |-> << >>]
    /\ UNCHANGED <<inv, pc, req, loc, lockHolder, result, lotVars, serialVars, catalogVars>>

\* GET /inventory/{id}/.
RetrieveInventory ==
    /\ LET r == inventory_retrieve(inv)
       IN  httpResp' = [op |-> "inventory_retrieve", status |-> r.status, body |-> r.body]
    /\ UNCHANGED <<ledgerVars, lotVars, serialVars, catalogVars>>

\* PUT, PATCH or DELETE /inventory/{id}/.
ChangeInventory ==
    /\ lockHolder = 0
    /\ LET r == inventory_detail(inv)
       IN  /\ inv' = r.inv
           /\ httpResp' = [op |-> "inventory_detail", status |-> r.status, body |-> << >>]
    /\ UNCHANGED <<journal, pc, req, loc, lockHolder, result, lotVars, serialVars, catalogVars>>

\* A staff user saves the admin change form of adjustment k.
AdminChangeAdjustment(k, q) ==
    /\ k \in 1..Len(journal)
    /\ journal' = InventoryAdjustmentAdminChange(journal, k, q)
    /\ httpResp' = [op |-> "admin_change", status |-> 200, body |-> << >>]
    /\ UNCHANGED <<inv, pc, req, loc, lockHolder, result, lotVars, serialVars, catalogVars>>

\* A staff user deletes adjustment k in the admin.
AdminDeleteAdjustment(k) ==
    /\ k \in 1..Len(journal)
    /\ journal' = InventoryAdjustmentAdminDelete(journal, k)
    /\ httpResp' = [op |-> "admin_delete", status |-> 200, body |-> << >>]
    /\ UNCHANGED <<inv, pc, req, loc, lockHolder, result, lotVars, serialVars, catalogVars>>

\* The inventory record and its journal as the REST API, the admin site and
\* direct calls of perform_inventory_adjustment reach them.
NextApi ==
    \/ \E t \in RequestTypes, q \in Quantities : PerformAdjustment(t, q)
    \/ \E t \in RequestTypes, q \in Quantities : CreateAdjustment(t, q)
    \/ \E k \in 1..MaxRequests : ChangeAdjustment(k)
    \/ RetrieveInventory
    \/ ChangeInventory
    \/ \E k \in 1..MaxRequests, q \in Quantities : AdminChangeAdjustment(k, q)
    \/ \E k \in 1..MaxRequests : AdminDeleteAdjustment(k)

SpecApi == Init /\ [][NextApi]_vars

\* ------------------------------------------------------- tracking modes
\* Product.clean (products/models.py 26-30): the exception it raises.
product_clean(flags) ==
    IF flags.is_serialized /\ flags.is_lotted THEN "ValidationError" ELSE ""

\* Product.save (products/models.py 32-34): clean, then the row is written;
\* nothing looks at the Lot or SerializedInventory rows of the product.
product_save(ps, sku, flags) ==
    IF product_clean(flags) # "" THEN ps ELSE [ps EXCEPT ![sku] = flags]

\* The product field of LotCreateSerializer (serializers.py 267-270): a
\* primary key outside Product.objects.filter(is_lotted=True) is refused,
\* as is a lot number the product already has (lines 295-303); create()
\* then saves the Lot row (lines 328-329). The response and the rows left.
lot_create_for(ps, rows, sku, ln) ==
    IF ~ps[sku].is_lotted \/ [product |-> sku, lot_number |-> ln] \in rows
    THEN [status |-> 400, rows |-> rows]
    ELSE [status |-> 201, rows |-> rows \cup {[product |-> sku, lot_number |-> ln]}]

\* The is_lotted check of add_lot, consume_lot, reserve_lot and
\* release_lot_reservation (views.py 277-284, 396-403, 533-540, 670-676),
\* which comes after get_object: the status answered for a product that is
\* not lot-tracked, 0 when the request goes on.
lot_endpoint_guard(ps, sku) ==
    IF get_object("InventoryViewSet") # "" THEN 500
    ELSE IF ~ps[sku].is_lotted THEN 400 ELSE 0

\* SerializedInventory.clean (models.py 330-340), as far as the product is
\* concerned: the exception it raises.
serialized_clean(ps, sku) ==
    IF ~ps[sku].is_serialized THEN "ValidationError" ELSE ""

\* SerializedInventory.save (models.py 342-344): clean, then the row is
\* written; unique_together (models.py 323) refuses a serial number the
\* product already has.
serialized_save(ps, rows, sku, sn) ==
    IF serialized_clean(ps, sku) # "" THEN rows
    ELSE rows \cup {[product |-> sku, serial_number |-> sn]}

\* A Product row is saved with these flags: the change form of ProductAdmin
\* (admin.py 20-25) or any caller of Product.save.
ProductSave(sku, lotted, serialized) ==
    /\ products' = product_save(products, sku, Flags(lotted, serialized))
    /\ UNCHANGED <<ledgerVars, lotVars, serialVars, httpVars, lotRows, unitRows>>

\* POST /lots/ naming product sku.
LotCreateFor(sku, ln) ==
    /\ LET r == lot_create_for(products, lotRows, sku, ln)
       IN  /\ lotRows' = r.rows
           /\ httpResp' = [op |-> "lot_create", status |-> r.status, body |-> <<sku>>]
    /\ UNCHANGED <<ledgerVars, lotVars, serialVars, products, unitRows>>

\* A lot endpoint of the inventory record of product sku is called.
LotEndpointFor(sku) ==
    /\ httpResp' = [op |-> "lot_endpoint", status |-> lot_endpoint_guard(products, sku),
                     body |-> <<sku>>]
    /\ UNCHANGED <<ledgerVars, lotVars, serialVars, catalogVars>>

\* A SerializedInventory row of product sku is saved: the add form of
\* SerializedInventoryAdmin (admin.py 52-100) or any caller of save.
SerializedSave(sku, sn) ==
    /\ unitRows' = serialized_save(products, unitRows, sku, sn)
    /\ UNCHANGED <<ledgerVars, lotVars, serialVars, httpVars, products, lotRows>>

\* The catalogue, the lot rows and the serial rows as the REST API, the
\* admin site and the model layer reach them.
NextTracking ==
    \/ \E sku \in Skus, lotted \in BOOLEAN, serialized \in BOOLEAN :
          ProductSave(sku, lotted, serialized)
    \/ \E sku \in Skus, ln \in LotNumbers : LotCreateFor(sku, ln)
    \/ \E sku \in Skus : LotEndpointFor(sku)
    \/ \E sku \in Skus, sn \in SerialNumbers : SerializedSave(sku, sn)

SpecTracking == Init /\ [][NextTracking]_vars

\* ------------------------------------------------------- lot services
\* What a lot service call leaves behind is in the database when it
\* returns; lotResp keeps which service was called on which lot and the
\* exception raised, and for the Allocation Selector its arguments and answer.
ServeLot(out, op, k, q, arg, pairs) ==
    /\ WithinBounds(out.lots, out.inv, journal)
    /\ lots' = out.lots
    /\ inv' = out.inv
    /\ lotResp' = [op |-> op, lot |-> k, qty |-> q, arg |-> arg,
                   raised |-> out.raised, pairs |-> pairs]

\* The lot services called directly, as the tests and the management
\* commands call them.
AddQuantityToLot(ln, q, e) ==
    /\ lockHolder = 0
    /\ ServeLot(add_quantity_to_lot(lots, inv, ln, q, e, today), "add", 0, 0, "-", << >>)
    /\ UNCHANGED <<journal, pc, req, loc, lockHolder, result, today, serialVars, httpVars, catalogVars>>

ConsumeQuantityFromLot(k, q) ==
    /\ lockHolder = 0
    /\ k \in 1..Len(lots)
    /\ ServeLot(consume_quantity_from_lot(lots, inv, k, q), "consume", k, 0, "-", << >>)
    /\ UNCHANGED <<journal, pc, req, loc, lockHolder, result, today, serialVars, httpVars, catalogVars>>

ReserveLotQuantity(k, q) ==
    /\ lockHolder = 0
    /\ k \in 1..Len(lots)
    /\ ServeLot(reserve_lot_quantity(lots, inv, k, q), "reserve", k, 0, "-", << >>)
    /\ UNCHANGED <<journal, pc, req, loc, lockHolder, result, today, serialVars, httpVars, catalogVars>>

ReleaseLotReservationCall(k, q) ==
    /\ lockHolder = 0
    /\ k \in 1..Len(lots)
    /\ ServeLot(release_lot_reservation(lots, inv, k, q), "release", k, 0, "-", << >>)
    /\ UNCHANGED <<journal, pc, req, loc, lockHolder, result, today, serialVars, httpVars, catalogVars>>

MarkLotAsExpired(k) ==
    /\ lockHolder = 0
    /\ k \in 1..Len(lots)
    /\ ServeLot(mark_lot_as_expired(lots, inv, k), "expire", k, 0, "-", << >>)
    /\ UNCHANGED <<journal, pc, req, loc, lockHolder, result, today, serialVars, httpVars, catalogVars>>

\* find_lots_for_consumption mutates nothing; its answer is kept.
FindLotsForConsumption(q, strategy) ==
    /\ lockHolder = 0
    /\ ServeLot(Outcome("", lots, inv), "find", 0, q, strategy,
                find_lots_for_consumption(lots, q, strategy))
    /\ UNCHANGED <<journal, pc, req, loc, lockHolder, result, today, serialVars, httpVars, catalogVars>>

\* Quantities asked of the Allocation Selector: up to more than one lot holds.
NeededQuantities == 1..(MaxLotQty + 1)

\* A lot-tracked product driven through the lot services.
NextLotService ==
    \/ \E ln \in LotNumbers, q \in RequestQuantities, e \in ExpiryDates :
          AddQuantityToLot(ln, q, e)
    \/ \E k \in 1..MaxLots, q \in RequestQuantities : ConsumeQuantityFromLot(k, q)
    \/ \E k \in 1..MaxLots, q \in RequestQuantities : ReserveLotQuantity(k, q)
    \/ \E k \in 1..MaxLots, q \in RequestQuantities : ReleaseLotReservationCall(k, q)
    \/ \E k \in 1..MaxLots : MarkLotAsExpired(k)
    \/ \E q \in NeededQuantities, s \in Strategies : FindLotsForConsumption(q, s)
    \/ NextDay

SpecLotService == Init /\ [][NextLotService]_vars

\* ---------------------------------------------------- serial operations
\* What a serial operation leaves behind is in the database when it returns;
\* serialResp keeps what was asked of which unit and the exception raised.
ServeSerial(out, op, k, value) ==
    /\ Len(out.units) <= MaxUnits
    /\ out.inv.stock_quantity \in 0..MaxStock
    /\ out.inv.reserved_quantity \in 0..MaxStock
    /\ units' = out.units
    /\ inv' = out.inv
    /\ serialResp' = [op |-> op, unit |-> k, value |-> value, raised |-> out.raised]

\* A call of receive_serialized_item for a serial number of the product.
ReceiveSerializedItem(sn) ==
    /\ lockHolder = 0
    /\ ServeSerial(receive_serialized_item(units, inv, sn), "receive", 0, sn)
    /\ UNCHANGED <<journal, pc, req, loc, lockHolder, result, lotVars, httpVars, catalogVars>>

\* A call of update_serialized_status on unit k.
UpdateSerializedStatus(k, new_status) ==
    /\ lockHolder = 0
    /\ k \in 1..Len(units)
    /\ ServeSerial(update_serialized_status(units, inv, k, new_status),
                   "update_status", k, new_status)
    /\ UNCHANGED <<journal, pc, req, loc, lockHolder, result, lotVars, httpVars, catalogVars>>

\* A call of reserve_serialized_item on unit k.
ReserveSerializedItem(k) ==
    /\ lockHolder = 0
    /\ k \in 1..Len(units)
    /\ ServeSerial(reserve_serialized_item(units, inv, k), "reserve", k, NoStatus)
    /\ UNCHANGED <<journal, pc, req, loc, lockHolder, result, lotVars, httpVars, catalogVars>>

\* A call of ship_serialized_item on unit k.
ShipSerializedItem(k) ==
    /\ lockHolder = 0
    /\ k \in 1..Len(units)
    /\ ServeSerial(ship_serialized_item(units, inv, k), "ship", k, NoStatus)
    /\ UNCHANGED <<journal, pc, req, loc, lockHolder, result, lotVars, httpVars, catalogVars>>

\* PUT/PATCH /serialized-inventory/{k}/ with or without a status.
SerializedUpdate(k, value) ==
    /\ lockHolder = 0
    /\ k \in 1..Len(units)
    /\ ServeSerial(serialized_update(units, inv, k, value), "update", k, value)
    /\ UNCHANGED <<journal, pc, req, loc, lockHolder, result, lotVars, httpVars, catalogVars>>

\* POST /serialized-inventory/{k}/reserve/.
Reserve(k) ==
    /\ lockHolder = 0
    /\ k \in 1..Len(units)
    /\ ServeSerial(reserve(units, inv, k), "POST reserve", k, NoStatus)
    /\ UNCHANGED <<journal, pc, req, loc, lockHolder, result, lotVars, httpVars, catalogVars>>

\* POST /serialized-inventory/{k}/ship/.
Ship(k) ==
    /\ lockHolder = 0
    /\ k \in 1..Len(units)
    /\ ServeSerial(ship(units, inv, k), "POST ship", k, NoStatus)
    /\ UNCHANGED <<journal, pc, req, loc, lockHolder, result, lotVars, httpVars, catalogVars>>

\* A staff user saves the admin change form of unit k with status value.
AdminChange(k, value) ==
    /\ lockHolder = 0
    /\ k \in 1..Len(units)
    /\ ServeSerial(SerializedInventoryAdmin(units, inv, k, value), "admin", k, value)
    /\ UNCHANGED <<journal, pc, req, loc, lockHolder, result, lotVars, httpVars, catalogVars>>

\* A serial-tracked product: the serial services and the endpoints of the
\* serialized inventory resource.
NextSerial ==
    \/ \E sn \in SerialNumbers : ReceiveSerializedItem(sn)
    \/ \E k \in 1..MaxUnits, st \in SerialStatuses : UpdateSerializedStatus(k, st)
    \/ \E k \in 1..MaxUnits : ReserveSerializedItem(k)
    \/ \E k \in 1..MaxUnits : ShipSerializedItem(k)
    \/ \E k \in 1..MaxUnits, v \in SerialStatuses \cup {NoStatus} : SerializedUpdate(k, v)
    \/ \E k \in 1..MaxUnits : Reserve(k)
    \/ \E k \in 1..MaxUnits : Ship(k)
    \/ \E k \in 1..MaxUnits, v \in SerialStatuses \cup {NoStatus} : AdminChange(k, v)

SpecSerial == Init /\ [][NextSerial]_vars

\* ------------------------------------------------------------ properties
\* The step on which a call of process p returns or raises.
Returns(p) == pc[p] # "idle" /\ pc'[p] = "idle"

Buckets ==
    {"stock_quantity", "reserved_quantity", "non_saleable_quantity",
     "on_order_quantity", "in_transit_quantity", "returned_quantity",
     "hold_quantity", "backorder_quantity"}

\* C1 (non-negativity): after any sequence of perform_inventory_adjustment
\* calls of any type and any integer quantity, every bucket of the committed
\* Inventory row is >= 0.
C1_NonNegativeBuckets ==
    /\ inv.stock_quantity >= 0
    /\ inv.reserved_quantity >= 0
    /\ inv.non_saleable_quantity >= 0
    /\ inv.hold_quantity >= 0
    /\ inv.on_order_quantity >= 0
    /\ inv.in_transit_quantity >= 0
    /\ inv.returned_quantity >= 0
    /\ inv.backorder_quantity >= 0

\* Stock has been added and subtracted down to zero again, and a further
\* call has been rejected.
C1_Witness ==
    /\ \E k \in 1..Len(journal) : journal[k].adjustment_type = "SUB"
    /\ inv.stock_quantity = 0
    /\ \E p \in Procs : result[p] = "error"

\* C2 (rejection has no side effect): when a call raises ValidationError, the
\* committed row is what it was before the step and what the call read under
\* its lock, and the journal has not grown.
C2_RejectionNoSideEffect ==
    [][\A p \in Procs :
          (Returns(p) /\ result'[p] = "error")
             => (inv' = inv /\ inv' = loc[p] /\ journal' = journal)]_vars

\* A call was rejected on a row that earlier calls had changed.
C2_Witness ==
    /\ \E p \in Procs : result[p] = "error"
    /\ Len(journal) > 0
    /\ inv # NewInventory

\* The row and the checks of a serial execution of the journal's adjustments,
\* oldest first, from a new Inventory row: ok is FALSE when an entry would
\* have raised on the row it met or recorded another new_stock_quantity.
RECURSIVE SerialRun(_, _)
SerialRun(j, k) ==
    IF k = 0 THEN [ok |-> TRUE, row |-> NewInventory]
    ELSE LET before == SerialRun(j, k - 1)
             t == j[k].adjustment_type
             q == j[k].quantity_change
             after == AdjustmentMutation(before.row, t, q)
         IN  [ok  |-> /\ before.ok
                      /\ ~AdjustmentRaises(before.row, t, q)
                      /\ j[k].new_stock_quantity = after.stock_quantity,
              row |-> after]

\* C3 (same-record serialization): at most one call is between its locked
\* read and its commit; the row it validates is the committed row, the row
\* it is about to save is its adjustment of the committed row; and the
\* committed row and journal are those of a serial execution of the
\* journalled calls.
C3_Serialized ==
    /\ \A p, r \in Procs :
          (p # r /\ pc[p] \in {"locked", "mutated"}) => pc[r] \notin {"locked", "mutated"}
    /\ \A p \in Procs : pc[p] = "locked" => loc[p] = inv
    /\ \A p \in Procs :
          pc[p] = "mutated" =>
             loc[p] = AdjustmentMutation(inv, req[p].adjustment_type, req[p].quantity_change)
    /\ SerialRun(journal, Len(journal)) = [ok |-> TRUE, row |-> inv]

\* Process 1 waits for the row lock while process 2 holds it with a mutated
\* row it has not yet committed.
C3_Witness ==
    /\ pc[1] = "begin"
    /\ pc[2] = "mutated"
    /\ lockHolder = 2
    /\ loc[2] # inv

\* The adjustment types of the ledger contract.
LedgerTypes ==
    {"ADD", "SUB", "RES", "REL_RES", "NON_SALE", "RET_STOCK", "HOLD", "REL_HOLD"}

\* C4 (journal completeness): a call that returns successfully has appended
\* exactly one journal entry whose new_stock_quantity is the committed
\* stock_quantity, and an entry is appended only by a call of a recognized
\* ledger type that changed the row.
C4_JournalCompleteness ==
    [][\A p \in Procs :
          /\ (Returns(p) /\ result'[p] = "ok") =>
                /\ Len(journal') = Len(journal) + 1
                /\ journal'[Len(journal')].new_stock_quantity = inv'.stock_quantity
          /\ (Returns(p) /\ journal' # journal) =>
                /\ req[p].adjustment_type \in LedgerTypes
                /\ inv' # inv]_vars

Total(i) ==
    i.stock_quantity + i.reserved_quantity + i.non_saleable_quantity + i.hold_quantity

\* C5 (bucket conservation): a committed call changes
\* stock + reserved + nonSaleable + hold by +qty for ADDITION, by -qty for
\* SUBTRACTION, and not at all for any other type.
C5_BucketConservation ==
    [][\A p \in Procs :
          (Returns(p) /\ result'[p] = "ok") =>
             Total(inv') - Total(inv) =
                CASE req[p].adjustment_type = "ADD" -> Abs(req[p].quantity_change)
                  [] req[p].adjustment_type = "SUB" -> 0 - Abs(req[p].quantity_change)
                  [] OTHER -> 0]_vars

\* C8 (RESERVATION): a call of type RES with qty > 0 and
\* stock - reserved >= qty succeeds, decreases stock_quantity by qty and
\* increases reserved_quantity by qty.
C8_Reservation ==
    [][\A p \in Procs :
          (/\ Returns(p)
           /\ req[p].adjustment_type = "RES"
           /\ req[p].quantity_change > 0
           /\ inv.stock_quantity - inv.reserved_quantity >= req[p].quantity_change)
          => (/\ result'[p] = "ok"
              /\ inv'.stock_quantity = inv.stock_quantity - req[p].quantity_change
              /\ inv'.reserved_quantity = inv.reserved_quantity + req[p].quantity_change)]_vars

\* C9 (RELEASE_RESERVATION): a call of type REL_RES with a positive quantity
\* qty and reserved >= qty succeeds, increases stock_quantity by qty and
\* decreases reserved_quantity by qty.
C9_ReleaseReservation ==
    [][\A p \in Procs :
          (/\ Returns(p)
           /\ req[p].adjustment_type = "REL_RES"
           /\ req[p].quantity_change > 0
           /\ inv.reserved_quantity >= req[p].quantity_change)
          => (/\ result'[p] = "ok"
              /\ inv'.stock_quantity = inv.stock_quantity + req[p].quantity_change
              /\ inv'.reserved_quantity = inv.reserved_quantity - req[p].quantity_change)]_vars

\* C10 (SUBTRACTION): a call of type SUB with a positive quantity qty and
\* stock >= qty succeeds, decreases stock_quantity by exactly qty and records
\* quantity_change = qty in the journal.
C10_Subtraction ==
    [][\A p \in Procs :
          (/\ Returns(p)
           /\ req[p].adjustment_type = "SUB"
           /\ req[p].quantity_change > 0
           /\ inv.stock_quantity >= req[p].quantity_change)
          => (/\ result'[p] = "ok"
              /\ inv'.stock_quantity = inv.stock_quantity - req[p].quantity_change
              /\ Len(journal') = Len(journal) + 1
              /\ journal'[Len(journal')].quantity_change = req[p].quantity_change)]_vars

\* The sum of quantity over the first n rows that are not terminal.
TerminalLotStatuses == {"CONSUMED"}
RECURSIVE LotSum(_, _)
LotSum(ls, n) ==
    IF n = 0 THEN 0
    ELSE LotSum(ls, n - 1) +
         (IF ls[n].status \in TerminalLotStatuses THEN 0 ELSE ls[n].quantity)

\* C6: lot conservation. In every state reached through lot creation and
\* adjustments, once the requests under way have returned, stock_quantity
\* equals the sum of quantity over the non-terminal lots.
C6_LotConservation ==
    (\A p \in Procs : pc[p] = "idle") => inv.stock_quantity = LotSum(lots, Len(lots))

\* A combined lot request (a lot endpoint that also records an adjustment)
\* that is answered with an error status.
FailedLotRequest ==
    \/ \E ln \in LotNumbers, q \in RequestQuantities, e \in ExpiryDates :
          /\ AddLot(ln, q, e)
          /\ add_lot(lots, inv, journal, ln, q, e, today).status >= 400
    \/ \E q \in RequestQuantities, s \in Strategies, sl \in BOOLEAN :
          /\ ConsumeLot(q, s, sl)
          /\ consume_lot(lots, inv, journal, q, s, sl).status >= 400
    \/ \E q \in RequestQuantities, s \in Strategies, sl \in BOOLEAN :
          /\ ReserveLot(q, s, sl)
          /\ reserve_lot(lots, inv, journal, q, s, sl).status >= 400
    \/ \E q \in RequestQuantities, sl \in BOOLEAN :
          /\ ReleaseLotReservation(q, sl)
          /\ release_lot_reservation_endpoint(lots, inv, journal, q, sl).status >= 400

C11_InsufficientStock ==
    [][\A p \in Procs :
          (/\ Returns(p)
           /\ req[p].adjustment_type = "SUB"
           /\ Abs(req[p].quantity_change) > inv.stock_quantity)
          => (/\ result'[p] = "error"
              /\ inv'.stock_quantity = inv.stock_quantity)]_vars

\* A call holds the lock on a row with stock and is about to check a SUB of
\* more units than the row has.
C11_Witness ==
    \E p \in Procs :
        /\ pc[p] = "locked"
        /\ req[p].adjustment_type = "SUB"
        /\ req[p].quantity_change < 0
        /\ loc[p].stock_quantity > 0
        /\ Abs(req[p].quantity_change) > loc[p].stock_quantity

\* C12 (RETURN_TO_STOCK): a call of type RET_STOCK with qty > 0 and
\* non_saleable >= qty succeeds, increases stock_quantity by qty and
\* decreases non_saleable_quantity by qty.
C12_ReturnToStock ==
    [][\A p \in Procs :
          (/\ Returns(p)
           /\ req[p].adjustment_type = "RET_STOCK"
           /\ req[p].quantity_change > 0
           /\ inv.non_saleable_quantity >= req[p].quantity_change)
          => (/\ result'[p] = "ok"
              /\ inv'.stock_quantity = inv.stock_quantity + req[p].quantity_change
              /\ inv'.non_saleable_quantity =
                    inv.non_saleable_quantity - req[p].quantity_change)]_vars

\* C13 (RETURN_TO_STOCK over-release): a call of type RET_STOCK whose
\* quantity exceeds non_saleable_quantity raises ValidationError, leaves
\* non_saleable_quantity unchanged and appends no journal entry.
C13_ReturnToStockTooMuch ==
    [][\A p \in Procs :
          (/\ Returns(p)
           /\ req[p].adjustment_type = "RET_STOCK"
           /\ req[p].quantity_change > inv.non_saleable_quantity)
          => (/\ result'[p] = "error"
              /\ inv'.non_saleable_quantity = inv.non_saleable_quantity
              /\ journal' = journal)]_vars

\* C14 (unknown adjustment type): a call whose adjustment type is not one of
\* the supported types raises ValidationError, changes no bucket and appends
\* no journal entry.
C14_UnknownType ==
    [][\A p \in Procs :
          (Returns(p) /\ req[p].adjustment_type \notin LedgerTypes)
          => (/\ result'[p] = "error"
              /\ inv' = inv
              /\ journal' = journal)]_vars

\* The bucket a move out of stock fills.
OwnBucket(t) == IF t = "NON_SALE" THEN "non_saleable_quantity" ELSE "hold_quantity"
OtherBucket(t) == IF t = "NON_SALE" THEN "hold_quantity" ELSE "non_saleable_quantity"

\* C15 (move out of stock): a call of type NON_SALE or HOLD with qty > 0 and
\* stock >= qty succeeds, decreases stock_quantity by qty and increases the
\* type's own bucket by qty, leaving reserved_quantity and the other bucket
\* unchanged; with qty <= 0 or qty > stock it raises and changes nothing.
C15_MoveOutOfStock ==
    [][\A p \in Procs :
          (Returns(p) /\ req[p].adjustment_type \in {"NON_SALE", "HOLD"})
          => LET t == req[p].adjustment_type
                 q == req[p].quantity_change
             IN  IF q > 0 /\ inv.stock_quantity >= q
                 THEN /\ result'[p] = "ok"
                      /\ inv'.stock_quantity = inv.stock_quantity - q
                      /\ inv'[OwnBucket(t)] = inv[OwnBucket(t)] + q
                      /\ inv'[OtherBucket(t)] = inv[OtherBucket(t)]
                      /\ inv'.reserved_quantity = inv.reserved_quantity
                 ELSE /\ result'[p] = "error"
                      /\ inv' = inv
                      /\ journal' = journal]_vars

\* Units have been moved out of stock into both buckets.
C15_Witness ==
    /\ inv.non_saleable_quantity > 0
    /\ inv.hold_quantity > 0
    /\ \E k \in 1..Len(journal) : journal[k].adjustment_type = "NON_SALE"
    /\ \E k \in 1..Len(journal) : journal[k].adjustment_type = "HOLD"

\* C16 (RELEASE_HOLD): a call of type REL_HOLD with a positive quantity qty
\* and hold >= qty succeeds, increases stock_quantity by qty and decreases
\* hold_quantity by qty.
C16_ReleaseHold ==
    [][\A p \in Procs :
          (/\ Returns(p)
           /\ req[p].adjustment_type = "REL_HOLD"
           /\ req[p].quantity_change > 0
           /\ inv.hold_quantity >= req[p].quantity_change)
          => (/\ result'[p] = "ok"
              /\ inv'.stock_quantity = inv.stock_quantity + req[p].quantity_change
              /\ inv'.hold_quantity = inv.hold_quantity - req[p].quantity_change)]_vars

\* C17 (serial transition guard): no step takes a SOLD or DAMAGED unit to
\* AVAILABLE, and a status update that asks for it, through the endpoint or
\* through update_serialized_status, is rejected and changes no unit.
C17_SerialTransitionGuard ==
    [][/\ \A k \in 1..Len(units) :
             units[k].status \in {"SOLD", "DAMAGED"}
                => (k <= Len(units') /\ units'[k].status # "AVAILABLE")
       /\ \A k \in 1..Len(units) :
             (/\ units[k].status \in {"SOLD", "DAMAGED"}
              /\ \/ SerializedUpdate(k, "AVAILABLE")
                 \/ UpdateSerializedStatus(k, "AVAILABLE"))
             => (serialResp'.raised # "" /\ units' = units)]_vars

\* C18: update_serialized_status from RESERVED to SOLD raises
\* ValidationError and the unit stays RESERVED; a RESERVED unit becomes SOLD
\* through ship only.
C18_ReservedToSoldByShipOnly ==
    [][/\ \A k \in 1..Len(units) :
             (units[k].status = "RESERVED" /\ UpdateSerializedStatus(k, "SOLD"))
             => (/\ serialResp'.raised = "ValidationError"
                 /\ units' = units
                 /\ inv' = inv)
       /\ \A k \in 1..Len(units) :
             (units[k].status = "RESERVED" /\ units'[k].status = "SOLD")
             => serialResp'.op = "ship"]_vars

\* The rows that carry serial number sn.
UnitsWithSerial(us, sn) == {k \in 1..Len(us) : us[k].serial_number = sn}

\* C19 (duplicate serial): receive_serialized_item for a serial number the
\* product already has raises ValidationError, adds no row and leaves
\* stock_quantity alone; in every state each serial number is on at most
\* one row.
C19_DuplicateSerial ==
    [][/\ \A sn \in SerialNumbers :
             (UnitsWithSerial(units, sn) # {} /\ ReceiveSerializedItem(sn))
             => (/\ serialResp'.raised = "ValidationError"
                 /\ units' = units
                 /\ inv'.stock_quantity = inv.stock_quantity)
       /\ \A sn \in SerialNumbers : Cardinality(UnitsWithSerial(units', sn)) <= 1]_vars

\* A second receipt of a serial number was refused after its unit had left
\* the AVAILABLE status; the serial number is still on one row.
C19_Witness ==
    /\ serialResp.op = "receive"
    /\ serialResp.raised = "ValidationError"
    /\ Cardinality(UnitsWithSerial(units, serialResp.value)) = 1
    /\ \E k \in UnitsWithSerial(units, serialResp.value) : units[k].status # "AVAILABLE"

Eligible(ls) == {k \in 1..Len(ls) : ls[k].status = "AVAILABLE" /\ ls[k].quantity > 0}

\* Row a expires strictly before row b; a row without expiry_date expires
\* after every row that has one.
ExpiresBefore(a, b) ==
    /\ a.expiry_date # NoDate
    /\ b.expiry_date = NoDate \/ a.expiry_date < b.expiry_date

\* The answer kept in lotResp was computed for strategy s on the rows as
\* they are now.
Answered(s) == lotResp.op = "find" /\ lotResp.arg = s

\* C22 (FEFO ordering): the pairs find_lots_for_consumption returns for
\* FEFO are in ascending expiry_date with rows without expiry_date last,
\* and a row is in the answer only if every eligible row that expires
\* before it is there, ahead of it, with its full quantity.
C22_FefoOrdering ==
    Answered("FEFO") =>
        LET P == lotResp.pairs
        IN  /\ \A m, n \in 1..Len(P) :
                  m < n => ~ExpiresBefore(lots[P[n].lot], lots[P[m].lot])
            /\ \A n \in 1..Len(P) : \A j \in Eligible(lots) :
                  ExpiresBefore(lots[j], lots[P[n].lot])
                     => \E m \in 1..(n - 1) :
                           P[m].lot = j /\ P[m].qty = lots[j].quantity

\* FEFO answered with the second row first, whole, and then part of the
\* first row, which has no expiry_date.
C22_Witness ==
    /\ Answered("FEFO")
    /\ Len(lotResp.pairs) = 2
    /\ lotResp.pairs[1].lot = 2
    /\ lotResp.pairs[2].lot = 1
    /\ lots[1].expiry_date = NoDate
    /\ lotResp.pairs[2].qty < lots[1].quantity

\* C23 (FIFO ordering): the pairs returned for FIFO are in ascending
\* received_date, an eligible row received earlier than a returned row is
\* returned ahead of it in full, and only the last pair may take part of
\* its row.
C23_FifoOrdering ==
    Answered("FIFO") =>
        LET P == lotResp.pairs
        IN  /\ \A m, n \in 1..Len(P) :
                  m < n => lots[P[m].lot].received_date <= lots[P[n].lot].received_date
            /\ \A n \in 1..Len(P) : \A j \in Eligible(lots) :
                  lots[j].received_date < lots[P[n].lot].received_date
                     => \E m \in 1..(n - 1) :
                           P[m].lot = j /\ P[m].qty = lots[j].quantity
            /\ \A n \in 1..(Len(P) - 1) : P[n].qty = lots[P[n].lot].quantity

\* FIFO answered with the older row whole and part of a row received on a
\* later day.
C23_Witness ==
    /\ Answered("FIFO")
    /\ Len(lotResp.pairs) = 2
    /\ lots[lotResp.pairs[1].lot].received_date < lots[lotResp.pairs[2].lot].received_date
    /\ lotResp.pairs[1].qty = lots[lotResp.pairs[1].lot].quantity
    /\ lotResp.pairs[2].qty < lots[lotResp.pairs[2].lot].quantity

\* The sum of the amounts of the pairs from position n on.
RECURSIVE SumPairs(_, _)
SumPairs(P, n) == IF n > Len(P) THEN 0 ELSE P[n].qty + SumPairs(P, n + 1)

\* The sum of the quantities of the rows in S.
RECURSIVE SumQuantity(_, _)
SumQuantity(ls, S) ==
    IF S = {} THEN 0
    ELSE LET k == CHOOSE k \in S : TRUE
         IN  ls[k].quantity + SumQuantity(ls, S \ {k})

\* C24 (allocation amounts): for a quantity needed > 0 the Allocation
\* Selector returns only AVAILABLE rows with quantity > 0, each amount is
\* positive and at most the row's quantity, and the amounts sum to the
\* smaller of the quantity needed and the total eligible quantity.
C24_AllocationAmounts ==
    lotResp.op = "find" =>
        LET P == lotResp.pairs
            pool == SumQuantity(lots, Eligible(lots))
        IN  /\ \A n \in 1..Len(P) :
                  /\ P[n].lot \in Eligible(lots)
                  /\ 0 < P[n].qty
                  /\ P[n].qty <= lots[P[n].lot].quantity
            /\ SumPairs(P, 1) = IF lotResp.qty < pool THEN lotResp.qty ELSE pool

\* A partial allocation: two rows taken whole and the quantity needed not
\* reached.
C24_Witness ==
    /\ lotResp.op = "find"
    /\ Len(lotResp.pairs) = 2
    /\ SumPairs(lotResp.pairs, 1) < lotResp.qty

\* The AVAILABLE rows of lot number ln.
AvailableRows(ls, ln) ==
    {k \in 1..Len(ls) : ls[k].lot_number = ln /\ ls[k].status = "AVAILABLE"}

\* C25: add_quantity_to_lot with qty > 0 increases stock_quantity by exactly
\* qty, and when an AVAILABLE row of the lot number exists that row's quantity
\* grows by qty and no row is created.
C25_AddQuantityToLot ==
    [][\A ln \in LotNumbers, q \in RequestQuantities, e \in ExpiryDates :
          (q > 0 /\ AddQuantityToLot(ln, q, e)) =>
             /\ inv'.stock_quantity = inv.stock_quantity + q
             /\ \A k \in AvailableRows(lots, ln) :
                   /\ Len(lots') = Len(lots)
                   /\ lots'[k].quantity = lots[k].quantity + q]_vars

\* C26: consume_quantity_from_lot with 0 < qty <= lot.quantity on an
\* AVAILABLE lot decreases lot.quantity and stock_quantity by exactly qty;
\* with qty > lot.quantity, or on a lot that is not AVAILABLE, it fails and
\* changes neither; lot.quantity is never negative.
C26_ConsumeQuantityFromLot ==
    [][/\ \A k \in 1..Len(lots), q \in RequestQuantities :
             (q > 0 /\ ConsumeQuantityFromLot(k, q)) =>
                IF lots[k].status = "AVAILABLE" /\ q <= lots[k].quantity
                THEN /\ lots'[k].quantity = lots[k].quantity - q
                     /\ inv'.stock_quantity = inv.stock_quantity - q
                ELSE /\ lotResp'.raised # ""
                     /\ lots' = lots
                     /\ inv' = inv
       /\ \A k \in 1..Len(lots') : lots'[k].quantity >= 0]_vars

\* A lot row that holds nothing and is out of circulation.
Spent(l) == l.quantity = 0 /\ l.status \in {"CONSUMED", "EXPIRED"}

C28_ReserveReleaseRoundTrip ==
    \A k \in 1..Len(lots), q \in 1..MaxLotQty, r \in 1..MaxLotQty :
        (lots[k].status = "AVAILABLE" /\ q <= lots[k].quantity /\ r <= q) =>
            LET reserved == reserve_lot_quantity(lots, inv, k, q)
                released == release_lot_reservation(reserved.lots, reserved.inv, k, r)
            IN  /\ reserved.raised = ""
                /\ released.raised = ""
                /\ released.lots[k].quantity = lots[k].quantity - q + r
                /\ released.lots[k].reserved_quantity = lots[k].reserved_quantity + q - r
                /\ released.inv.stock_quantity = inv.stock_quantity - q + r
                /\ released.inv.reserved_quantity = inv.reserved_quantity + q - r

C30_ExpiredWhenPastExpiry ==
    \A k \in 1..Len(lots) :
        (lots[k].expiry_date # NoDate /\ lots[k].expiry_date < today)
            => lots[k].status = "EXPIRED"

\* C31 (journal immutability): no step changes a field of an
\* InventoryAdjustment row that exists or removes the row; the journal of
\* the inventory record only grows.
C31_JournalImmutable ==
    [][/\ Len(journal') >= Len(journal)
       /\ \A k \in 1..Len(journal) : journal'[k] = journal[k]]_vars

\* C33 (available to promise on every read path): the property of the row
\* is max(0, stock_quantity - reserved_quantity), and a read of the record
\* through the inventory detail or list endpoint answers 200 and reports
\* that same value.
C33_AvailableToPromise ==
    [][/\ available_to_promise(inv') >= 0
       /\ available_to_promise(inv') + inv'.reserved_quantity >= inv'.stock_quantity
       /\ (available_to_promise(inv') = 0
              \/ available_to_promise(inv') = inv'.stock_quantity - inv'.reserved_quantity)
       /\ (httpResp'.op = "inventory_retrieve" =>
              /\ httpResp'.status = 200
              /\ httpResp'.body = <<available_to_promise(inv')>>)]_<<inv, httpResp>>

\* C34 (single mutation path): every step that changes a bucket of the
\* inventory record is the write of perform_inventory_adjustment by the
\* process that holds the lock of the record, and the same step adds its
\* journal entry.
C34_SingleMutationPath ==
    [][inv' # inv =>
          \E p \in Procs : /\ lockHolder = p
                           /\ pc[p] = "mutated"
                           /\ inv' = loc[p]
                           /\ Len(journal') = Len(journal) + 1]_vars

\* C36 (reserved units are protected): reserved_quantity never exceeds
\* stock_quantity in a state reached by perform_inventory_adjustment calls
\* from the empty record.
C36_ReservedWithinStock == inv.reserved_quantity <= inv.stock_quantity

\* What perform_inventory_adjustment(t, q) adds to stock_quantity.
StockDelta(t, q) == AdjustmentMutation(NewInventory, t, q).stock_quantity

\* The stock changes of the first n journal entries, added up.
RECURSIVE JournalDelta(_, _)
JournalDelta(j, n) ==
    IF n = 0 THEN 0
    ELSE JournalDelta(j, n - 1) + StockDelta(j[n].adjustment_type, j[n].quantity_change)

\* C38 (no lost update between lot creation and adjustment): once the lot
\* creation and the adjustment that ran side by side have both returned,
\* stock_quantity is what the journalled adjustments and the created lots
\* add up to.
C38_NoLostUpdate ==
    (\A p \in Procs : pc[p] = "idle") =>
        inv.stock_quantity = JournalDelta(journal, Len(journal)) + LotSum(lots, Len(lots))

\* C35 (lock release): a call that holds the lock of the record eventually
\* gives it back, whether it commits or raises, and a call that waits for
\* the lock eventually gets it and eventually returns.
C35_LockRelease ==
    \A p \in Procs :
        /\ (lockHolder = p) ~> (lockHolder # p)
        /\ (pc[p] = "begin") ~> (pc[p] = "locked")
        /\ (pc[p] = "begin") ~> (pc[p] = "idle")

\* A call waits for the lock that the other call holds.
C35_Witness ==
    \E p, o \in Procs : p # o /\ pc[p] = "begin" /\ lockHolder = o /\ pc[o] = "mutated"

\* C32 (tracking-mode guard): in every state, every Lot row belongs to a
\* product that is lot-tracked, every SerializedInventory row to a product
\* that is serial-tracked, and no product has both flags set.
C32_TrackingModeGuard ==
    /\ \A r \in lotRows : products[r.product].is_lotted
    /\ \A r \in unitRows : products[r.product].is_serialized
    /\ \A sku \in Skus : ~(products[sku].is_lotted /\ products[sku].is_serialized)

=========================================================================
